---- MODULE Spec2Model ----
(***************************************************************************)
(* The continuum-cp-swap program: a global sequence counter (FifoState),   *)
(* a registry of CP-Swap pools, per-order accounts and the instructions    *)
(* of lib.rs that create and change them.  Every instruction is one        *)
(* atomic step: the account constraints of its #[derive(Accounts)] struct  *)
(* are evaluated first, then the handler body; any error reverts the       *)
(* whole call, so a failed call changes nothing at all: its error is the    *)
(* value of the instruction's constraint operator in the state it is made  *)
(* from.                                                                   *)
(***************************************************************************)
EXTENDS Integers, Sequences, FiniteSets, TLC

(* ------------------------------ bounds --------------------------------- *)
\* submissions the model follows (current_sequence is a u64 in the program)
MaxSeq == 2
\* values Clock.unix_timestamp takes beyond 0
MaxTime == 1
\* pass-through (remaining) accounts a caller may append
MaxRemaining == 1

Keys == {"k1", "k2"}
\* the signer of initialize, and the keys proposed as relayers
Admins == {"k1"}
Relayers == {"k2"}
Pools == {"p1", "p2"}
\* the (amount_in, min_amount_out, is_base_input) callers submit
OrderParams ==
    { [amount_in |-> 1000, min_amount_out |-> 900, is_base_input |-> TRUE] }

VARIABLES fifo_state, pool_registry, orders, events, clock, last

vars == <<fifo_state, pool_registry, orders, events, clock, last>>

(* ------------------------------ accounts ------------------------------- *)
\* an address at which no account has been created
NoAccount == [exists |-> FALSE]

\* Option<i64>
None == <<>>
Some(v) == <<v>>

\* Program-derived addresses: find_program_address is a hash of its seeds,
\* modelled as the (injective) tuple of the seeds.
OrderPda(user, sequence) == <<"order", user, sequence>>
PoolAuthorityPda(pool_id) == <<"cp_pool_authority", pool_id>>

OrderAddrs == { OrderPda(u, s) : u \in Keys, s \in 0..MaxSeq }

FifoState(seq, admin, pause, relayers) ==
    [exists |-> TRUE, current_sequence |-> seq, admin |-> admin,
     emergency_pause |-> pause, authorized_relayers |-> relayers]

CpSwapPoolRegistry(pool_id, authority, created_at, is_active) ==
    [exists |-> TRUE, pool_id |-> pool_id, token_0 |-> "default",
     token_1 |-> "default", continuum_authority |-> authority,
     created_at |-> created_at, is_active |-> is_active]

OrderState(sequence, user, pool_id, p, status, submitted_at, executed_at) ==
    [exists |-> TRUE, sequence |-> sequence, user |-> user,
     pool_id |-> pool_id, amount_in |-> p.amount_in,
     min_amount_out |-> p.min_amount_out, is_base_input |-> p.is_base_input,
     status |-> status, submitted_at |-> submitted_at,
     executed_at |-> executed_at]

OrderStatus == {"Pending", "Executed", "Cancelled", "Failed"}

\* The most recent call that committed: the instruction, its signer, the
\* order account and the sequence it named or assigned, the pool or key it
\* named, the events it emitted, and the authority under which it signed
\* a forwarded swap (none unless SignedBy says so).
Call(op, caller, addr, seq, pool, emitted) ==
    [op |-> op, caller |-> caller, addr |-> addr, seq |-> seq,
     pool |-> pool, emitted |-> emitted, authority |-> None]

\* the call, its forwarded swap signed with the seeds of authority
SignedBy(call, authority) == [call EXCEPT !.authority = Some(authority)]

\* the log keeps, of every event that carries a sequence, its kind and sequence
Logged(ev) == [kind |-> ev.kind, sequence |-> ev.sequence]

Init ==
    /\ fifo_state = NoAccount
    /\ pool_registry = [p \in Pools |-> NoAccount]
    /\ orders = [a \in OrderAddrs |-> NoAccount]
    /\ events = <<>>
    /\ clock = 0
    /\ last = Call("none", "none", <<>>, 0, "none", <<>>)

\* a call that failed: the host reverts every change it made
Reverted == UNCHANGED vars

(* ------------------------------ initialize ----------------------------- *)
\* variant: the account written without init
InitializeResult_overwrite(fifo) == "Ok"

\* Initialize.fifo_state: init fails on an address already in use
InitializeResult(fifo) ==
    IF fifo.exists THEN "AlreadyInUse" ELSE "Ok"

\* the record the handler writes into the account just created
InitializedFifo(admin) == FifoState(0, admin, FALSE, <<>>)

initialize ==
    \E admin \in Admins :
        LET r == InitializeResult(fifo_state) IN
        IF r # "Ok" THEN Reverted
        ELSE /\ fifo_state' = InitializedFifo(admin)
             /\ last' = Call("initialize", admin, <<>>, 0, "none", <<>>)
             /\ UNCHANGED <<pool_registry, orders, events, clock>>

(* ------------------------ initialize_cp_swap_pool ---------------------- *)
\* Account validation of InitializeCpSwapPool: fifo_state is loaded, the
\* registry account is created (init fails on an address already in use),
\* then has_one = admin is checked.
\* variant: the registry account written without init
InitializeCpSwapPoolConstraints_noInit(fifo, registry, admin) ==
    IF ~fifo.exists THEN "AccountNotInitialized"
    ELSE IF fifo.admin # admin THEN "ConstraintHasOne"
    ELSE "Ok"

InitializeCpSwapPoolConstraints(fifo, registry, admin) ==
    IF ~fifo.exists THEN "AccountNotInitialized"
    ELSE IF registry.exists THEN "AlreadyInUse"
    ELSE IF fifo.admin # admin THEN "ConstraintHasOne"
    ELSE "Ok"

PoolRegisteredEvent(pool_id, authority) ==
    [kind |-> "PoolRegistered", pool_id |-> pool_id,
     continuum_authority |-> authority]

\* InitializeCpSwapPool.pool_authority, stored as continuum_authority
RegisteredAuthority(pool_state) == <<"cp_pool_authority", pool_state>>

\* one call of initialize_cp_swap_pool; engine_ok is the outcome of the
\* forwarded pool-creation call
InitializeCpSwapPoolCall(admin, pool_state, engine_ok) ==
    LET r == InitializeCpSwapPoolConstraints(
                 fifo_state, pool_registry[pool_state], admin)
    IN
    IF r # "Ok" THEN Reverted
    ELSE IF ~engine_ok THEN Reverted
    ELSE /\ pool_registry' =
                [pool_registry EXCEPT ![pool_state] =
                    CpSwapPoolRegistry(pool_state,
                        RegisteredAuthority(pool_state), clock, TRUE)]
         /\ last' = Call("initialize_cp_swap_pool", admin, <<>>, 0,
                         pool_state,
                         <<PoolRegisteredEvent(pool_state,
                               RegisteredAuthority(pool_state))>>)
         /\ UNCHANGED <<fifo_state, orders, events, clock>>

initialize_cp_swap_pool ==
    \E admin \in Keys, pool_state \in Pools, engine_ok \in BOOLEAN :
        InitializeCpSwapPoolCall(admin, pool_state, engine_ok)

(* ------------------------------ submit_order --------------------------- *)
\* variant: the order account seeded with the sequence the handler assigns
SubmitOrderPdaSequence_assigned(fifo) == fifo.current_sequence + 1

\* seeds of SubmitOrder.order_state: the counter as it is when the accounts
\* are validated, before the handler runs
SubmitOrderPdaSequence(fifo) == fifo.current_sequence

\* variant: the counter advanced by two
NewSequence_by2(fifo) == fifo.current_sequence + 2

\* the sequence the handler assigns
NewSequence(fifo) == fifo.current_sequence + 1

OrderSubmittedEvent(sequence, user, pool_id, p) ==
    [kind |-> "OrderSubmitted", sequence |-> sequence, user |-> user,
     pool_id |-> pool_id, amount_in |-> p.amount_in,
     is_base_input |-> p.is_base_input]

\* constraints shared by SubmitOrder, SubmitOrderSimple and SwapImmediate
SubmissionConstraints(fifo, registry) ==
    IF ~fifo.exists \/ ~registry.exists THEN "AccountNotInitialized"
    ELSE IF fifo.emergency_pause THEN "EmergencyPause"
    ELSE IF ~registry.is_active THEN "PoolNotRegistered"
    ELSE "Ok"

SubmitOrderConstraints(fifo, registry, order_account) ==
    IF ~fifo.exists \/ ~registry.exists THEN "AccountNotInitialized"
    ELSE IF order_account.exists THEN "AlreadyInUse"
    ELSE SubmissionConstraints(fifo, registry)

\* fifo_state.current_sequence = new_sequence
AdvancedFifo(fifo) == [fifo EXCEPT !.current_sequence = NewSequence(fifo)]

\* variant: the record keeps the sequence its address was seeded with
SubmittedOrder_pdaSequence(fifo, user, pool_id, p, now) ==
    OrderState(fifo.current_sequence, user, pool_id, p, "Pending", now, None)

\* variant: the record's sequence field is assigned from amount_in
SubmittedOrder_wrongField(fifo, user, pool_id, p, now) ==
    OrderState(p.amount_in, user, pool_id, p, "Pending", now, None)

\* the order record the handler writes
SubmittedOrder(fifo, user, pool_id, p, now) ==
    OrderState(NewSequence(fifo), user, pool_id, p, "Pending", now, None)

submit_order ==
    \E user \in Keys, pool_id \in Pools, p \in OrderParams :
        /\ fifo_state.exists => fifo_state.current_sequence < MaxSeq
        /\ LET addr == IF fifo_state.exists
                       THEN OrderPda(user, SubmitOrderPdaSequence(fifo_state))
                       ELSE OrderPda(user, 0)
               r == SubmitOrderConstraints(fifo_state, pool_registry[pool_id],
                                           orders[addr])
           IN
           IF r # "Ok" THEN Reverted
           ELSE LET o == SubmittedOrder(fifo_state, user, pool_id, p, clock)
                    ev == OrderSubmittedEvent(NewSequence(fifo_state), user,
                                              pool_id, p)
                IN
                /\ fifo_state' = AdvancedFifo(fifo_state)
                /\ orders' = [orders EXCEPT ![addr] = o]
                /\ events' = Append(events, Logged(ev))
                /\ last' = Call("submit_order", user, addr,
                                 NewSequence(fifo_state), pool_id, <<ev>>)
                /\ UNCHANGED <<pool_registry, clock>>

(* --------------------------- submit_order_simple ----------------------- *)
\* a token account handed to an instruction is named by its owner field
submit_order_simple ==
    \E user \in Keys, pool_id \in Pools, p \in OrderParams :
        /\ fifo_state.exists => fifo_state.current_sequence < MaxSeq
        /\ LET r == SubmissionConstraints(fifo_state, pool_registry[pool_id])
           IN
           IF r # "Ok" THEN Reverted
           ELSE \E source_owner \in Keys, destination_owner \in Keys :
                IF source_owner # user \/ destination_owner # user
                THEN Reverted
                ELSE LET ev == OrderSubmittedEvent(NewSequence(fifo_state),
                                                   user, pool_id, p)
                     IN
                     /\ fifo_state' = AdvancedFifo(fifo_state)
                     /\ events' = Append(events, Logged(ev))
                     /\ last' = Call("submit_order_simple", user, <<>>,
                                 NewSequence(fifo_state), pool_id, <<ev>>)
                     /\ UNCHANGED <<pool_registry, orders, clock>>

(* ------------------------------ the forwarded swap --------------------- *)
\* account metas of the forwarded instruction: the pool authority, the
\* user's two token accounts (execute_order only), the pass-through accounts
ExecuteOrderMetas(remaining) == 3 + remaining
\* account infos execute_order hands to invoke_signed
ExecuteOrderInfos(remaining) == 3

SwapImmediateMetas(remaining) == 1 + remaining
SwapImmediateInfos(remaining) == 1 + remaining

\* invoke_signed: the runtime rejects an instruction that names an account
\* it was not handed; otherwise the outcome is the engine's
InvokeSigned(metas, infos, engine_ok) ==
    IF infos < metas THEN "MissingAccount"
    ELSE IF engine_ok THEN "Ok" ELSE "CpiFailed"

(* ------------------------------ execute_order -------------------------- *)
\* variant: the constraint on order_state.sequence left out
ExecuteOrderStateConstraints_noSequence(addr, order, expected_sequence) ==
    IF ~order.exists THEN "AccountNotInitialized"
    ELSE IF addr # OrderPda(order.user, expected_sequence)
         THEN "ConstraintSeeds"
    ELSE IF order.status # "Pending" THEN "InvalidOrderStatus"
    ELSE "Ok"

\* ExecuteOrder.order_state: seeds, then the two constraints in order
ExecuteOrderStateConstraints(addr, order, expected_sequence) ==
    IF ~order.exists THEN "AccountNotInitialized"
    ELSE IF addr # OrderPda(order.user, expected_sequence)
         THEN "ConstraintSeeds"
    ELSE IF order.sequence # expected_sequence THEN "InvalidSequence"
    ELSE IF order.status # "Pending" THEN "InvalidOrderStatus"
    ELSE "Ok"

\* ExecuteOrder.user_source / user_destination
TokenOwnerConstraints(order, source_owner, destination_owner) ==
    IF source_owner # order.user \/ destination_owner # order.user
    THEN "ConstraintRaw" ELSE "Ok"

OrderExecutedEvent(sequence, user, amount_out, executor) ==
    [kind |-> "OrderExecuted", sequence |-> sequence, user |-> user,
     amount_out |-> amount_out, executor |-> executor]

\* the order as the handler leaves it
ExecutedOrder(order, now) ==
    [order EXCEPT !.status = "Executed", !.executed_at = Some(now)]

\* ctx.accounts.user_destination.amount - start_balance
\* (the balances are the token program's; the call reads them)
BalanceDelta(start_balance, end_balance) == end_balance - start_balance

\* The error execute_order stops at, up to and including the forwarded
\* call: the order account's constraints, the token accounts' constraints,
\* then invoke_signed.  The executor is a Signer and nothing else is asked
\* of it; fifo_state and pool_registry are only loaded.
ExecuteOrderResult(addr, expected_sequence, executor, source_owner, destination_owner, remaining, engine_ok) ==
    LET order == orders[addr]
        r == ExecuteOrderStateConstraints(addr, order, expected_sequence)
    IN
    IF r # "Ok" THEN r
    ELSE IF TokenOwnerConstraints(order, source_owner, destination_owner)
                # "Ok"
         THEN TokenOwnerConstraints(order, source_owner, destination_owner)
    ELSE InvokeSigned(ExecuteOrderMetas(remaining),
                      ExecuteOrderInfos(remaining), engine_ok)

\* ExecuteOrder.pool_authority and pool_authority_seeds
ExecuteOrderAuthority(order) == <<"cp_pool_authority", order.pool_id>>

\* one call of execute_order with all its inputs
ExecuteOrderCall(addr, expected_sequence, executor, source_owner, destination_owner, remaining, engine_ok, start_balance, end_balance) ==
    LET order == orders[addr]
        r == ExecuteOrderResult(addr, expected_sequence, executor,
                 source_owner, destination_owner, remaining, engine_ok)
    IN
    IF r # "Ok" THEN Reverted
    ELSE IF end_balance < start_balance THEN Reverted
    ELSE LET ev == OrderExecutedEvent(order.sequence, order.user,
                        BalanceDelta(start_balance, end_balance), executor)
         IN
         /\ orders' = [orders EXCEPT ![addr] = ExecutedOrder(order, clock)]
         /\ events' = Append(events, Logged(ev))
         /\ last' = SignedBy(Call("execute_order", executor, addr,
                                  expected_sequence, order.pool_id, <<ev>>),
                             ExecuteOrderAuthority(order))
         /\ UNCHANGED <<fifo_state, pool_registry, clock>>

\* the inputs read after the order account's constraints are drawn only
\* when those constraints pass
execute_order ==
    \E addr \in OrderAddrs, expected_sequence \in 0..MaxSeq :
        IF ExecuteOrderStateConstraints(addr, orders[addr], expected_sequence)
               # "Ok"
        THEN Reverted
        ELSE \E executor \in Keys,
                source_owner \in Keys, destination_owner \in Keys,
                remaining \in 0..MaxRemaining, engine_ok \in BOOLEAN,
                start_balance \in 0..1, end_balance \in 0..1 :
             ExecuteOrderCall(addr, expected_sequence, executor, source_owner,
                              destination_owner, remaining, engine_ok,
                              start_balance, end_balance)

(* ------------------------------ cancel_order --------------------------- *)
\* CancelOrder.order_state: seeds, then the two constraints in order
CancelOrderConstraints(addr, order, user) ==
    IF ~order.exists THEN "AccountNotInitialized"
    ELSE IF addr # OrderPda(user, order.sequence) THEN "ConstraintSeeds"
    ELSE IF order.status # "Pending" THEN "InvalidOrderStatus"
    ELSE IF order.user # user THEN "Unauthorized"
    ELSE "Ok"

OrderCancelledEvent(sequence, user) ==
    [kind |-> "OrderCancelled", sequence |-> sequence, user |-> user]

CancelledOrder(order, now) ==
    [order EXCEPT !.status = "Cancelled", !.executed_at = Some(now)]

\* one call of cancel_order with all its inputs
CancelOrderCall(addr, user) ==
    LET order == orders[addr]
        r == CancelOrderConstraints(addr, order, user)
    IN
    IF r # "Ok" THEN Reverted
    ELSE LET ev == OrderCancelledEvent(order.sequence, user) IN
         /\ orders' = [orders EXCEPT ![addr] = CancelledOrder(order, clock)]
         /\ events' = Append(events, Logged(ev))
         /\ last' = Call("cancel_order", user, addr, order.sequence,
                         order.pool_id, <<ev>>)
         /\ UNCHANGED <<fifo_state, pool_registry, clock>>

cancel_order ==
    \E addr \in OrderAddrs, user \in Keys : CancelOrderCall(addr, user)

(* ------------------------------ swap_immediate ------------------------- *)
\* variant: the event carries the counter as it was before the call
SwapExecutedEvent_stale(sequence, pool_id, p) ==
    [kind |-> "SwapExecuted", sequence |-> sequence - 1, pool_id |-> pool_id,
     amount_in |-> p.amount_in, is_base_input |-> p.is_base_input]

\* emit!(SwapExecuted { .. })
SwapExecutedEvent(sequence, pool_id, p) ==
    [kind |-> "SwapExecuted", sequence |-> sequence, pool_id |-> pool_id,
     amount_in |-> p.amount_in, is_base_input |-> p.is_base_input]

\* variant: the authority derived without the pool
SwapImmediateAuthority_noPool(pool_id) == <<"cp_pool_authority">>

\* SwapImmediate.pool_authority and pool_authority_seeds
SwapImmediateAuthority(pool_id) == <<"cp_pool_authority", pool_id>>

\* one call of swap_immediate; SwapImmediate names no Signer account
SwapImmediateCall(pool_id, p, remaining, engine_ok) ==
    /\ fifo_state.exists => fifo_state.current_sequence < MaxSeq
    /\ LET r == SubmissionConstraints(fifo_state, pool_registry[pool_id])
           i == InvokeSigned(SwapImmediateMetas(remaining),
                             SwapImmediateInfos(remaining), engine_ok)
           ev == SwapExecutedEvent(NewSequence(fifo_state), pool_id, p)
       IN
       IF r # "Ok" \/ i # "Ok" THEN Reverted
       ELSE /\ fifo_state' = AdvancedFifo(fifo_state)
            /\ events' = Append(events, Logged(ev))
            /\ last' = SignedBy(Call("swap_immediate", "none", <<>>,
                            NewSequence(fifo_state), pool_id, <<ev>>),
                        SwapImmediateAuthority(pool_id))
            /\ UNCHANGED <<pool_registry, orders, clock>>

swap_immediate ==
    \E pool_id \in Pools, p \in OrderParams,
       remaining \in 0..MaxRemaining, engine_ok \in BOOLEAN :
        SwapImmediateCall(pool_id, p, remaining, engine_ok)

(* ------------------------------ relayers ------------------------------- *)
Contains(list, k) == \E i \in 1..Len(list) : list[i] = k

\* Vec::retain(|&r| r != k)
Retain(list, k) == SelectSeq(list, LAMBDA r : r # k)

\* variant: the check that the relayer is already listed left out
AddRelayerResult_noContains(fifo, admin, new_relayer) ==
    IF ~fifo.exists THEN "AccountNotInitialized"
    ELSE IF fifo.admin # admin THEN "Unauthorized"
    ELSE "Ok"

\* variant: the constraint fifo_state.admin == admin.key() left out
AddRelayerResult_anySigner(fifo, admin, new_relayer) ==
    IF ~fifo.exists THEN "AccountNotInitialized"
    ELSE IF Contains(fifo.authorized_relayers, new_relayer) THEN "Unauthorized"
    ELSE "Ok"

AddRelayerResult(fifo, admin, new_relayer) ==
    IF ~fifo.exists THEN "AccountNotInitialized"
    ELSE IF fifo.admin # admin THEN "Unauthorized"
    ELSE IF Contains(fifo.authorized_relayers, new_relayer) THEN "Unauthorized"
    ELSE "Ok"

\* one call of add_relayer
AddRelayerCall(admin, new_relayer) ==
    LET r == AddRelayerResult(fifo_state, admin, new_relayer)
    IN
    IF r # "Ok" THEN Reverted
    ELSE /\ fifo_state' = [fifo_state EXCEPT !.authorized_relayers =
                                Append(@, new_relayer)]
         /\ last' = Call("add_relayer", admin, <<>>, 0, new_relayer, <<>>)
         /\ UNCHANGED <<pool_registry, orders, events, clock>>

add_relayer ==
    \E admin \in Keys, new_relayer \in Relayers :
        AddRelayerCall(admin, new_relayer)

RemoveRelayerResult(fifo, admin) ==
    IF ~fifo.exists THEN "AccountNotInitialized"
    ELSE IF fifo.admin # admin THEN "Unauthorized"
    ELSE "Ok"

\* one call of remove_relayer
RemoveRelayerCall(admin, relayer_to_remove) ==
    LET r == RemoveRelayerResult(fifo_state, admin)
    IN
    IF r # "Ok" THEN Reverted
    ELSE /\ fifo_state' = [fifo_state EXCEPT !.authorized_relayers =
                                Retain(@, relayer_to_remove)]
         /\ last' = Call("remove_relayer", admin, <<>>, 0,
                          relayer_to_remove, <<>>)
         /\ UNCHANGED <<pool_registry, orders, events, clock>>

remove_relayer ==
    \E admin \in Keys, relayer_to_remove \in Relayers :
        RemoveRelayerCall(admin, relayer_to_remove)

\* The allow-list on its own: initialize and the two relayer instructions,
\* the relayer drawn from four keys.
RelayerKeys == {"k1", "k2", "k3", "k4"}

add_any_relayer ==
    \E admin \in Keys, new_relayer \in RelayerKeys :
        AddRelayerCall(admin, new_relayer)

remove_any_relayer ==
    \E admin \in Keys, relayer_to_remove \in RelayerKeys :
        RemoveRelayerCall(admin, relayer_to_remove)

RelayersNext ==
    \/ initialize
    \/ add_any_relayer
    \/ remove_any_relayer

SpecRelayers == Init /\ [][RelayersNext]_vars

(* ------------------------------ the clock ------------------------------ *)
Tick ==
    /\ clock < MaxTime
    /\ clock' = clock + 1
    /\ UNCHANGED <<fifo_state, pool_registry, orders, events, last>>

Next ==
    \/ initialize
    \/ initialize_cp_swap_pool
    \/ submit_order
    \/ submit_order_simple
    \/ execute_order
    \/ cancel_order
    \/ swap_immediate
    \/ add_relayer
    \/ remove_relayer
    \/ Tick

Spec == Init /\ [][Next]_vars
(* ------------------------ the forwarded payload ------------------------ *)
\* the first k bytes of n, least significant first
RECURSIVE LeBytes(_, _)
LeBytes(n, k) ==
    IF k = 0 THEN <<>> ELSE <<n % 256>> \o LeBytes(n \div 256, k - 1)

\* u64::to_le_bytes
ToLeBytes(n) == LeBytes(n, 8)

SwapBaseInputDiscriminator == <<143, 190, 90, 218, 196, 30, 51, 222>>
SwapBaseOutputDiscriminator == <<55, 217, 98, 86, 163, 74, 180, 173>>

\* variant: the base-output arguments in the base-input order
ExecuteOrderIxData_inputOrder(order) ==
    IF order.is_base_input
    THEN SwapBaseInputDiscriminator \o ToLeBytes(order.amount_in)
             \o ToLeBytes(order.min_amount_out)
    ELSE SwapBaseOutputDiscriminator \o ToLeBytes(order.amount_in)
             \o ToLeBytes(order.min_amount_out)

\* ix_data of execute_order, built from the stored order
ExecuteOrderIxData(order) ==
    IF order.is_base_input
    THEN SwapBaseInputDiscriminator \o ToLeBytes(order.amount_in)
             \o ToLeBytes(order.min_amount_out)
    ELSE SwapBaseOutputDiscriminator \o ToLeBytes(order.min_amount_out)
             \o ToLeBytes(order.amount_in)

\* ix_data of swap_immediate, built from its arguments
SwapImmediateIxData(amount_in, min_amount_out, is_base_input) ==
    IF is_base_input
    THEN SwapBaseInputDiscriminator \o ToLeBytes(amount_in)
             \o ToLeBytes(min_amount_out)
    ELSE SwapBaseOutputDiscriminator \o ToLeBytes(min_amount_out)
             \o ToLeBytes(amount_in)

\* ix_data of execute_order_simple, built from its arguments
ExecuteOrderSimpleIxData(amount_in, min_amount_out, is_base_input) ==
    IF is_base_input
    THEN SwapBaseInputDiscriminator \o ToLeBytes(amount_in)
             \o ToLeBytes(min_amount_out)
    ELSE SwapBaseOutputDiscriminator \o ToLeBytes(min_amount_out)
             \o ToLeBytes(amount_in)

\* The payload builders applied to arguments of every byte length the
\* model's integers hold (amounts are u64 in the program).
PayloadAmounts ==
    {0, 1, 255, 256, 900, 1000, 65535, 65536, 16777216, 2147483647}

PayloadParams ==
    [amount_in : PayloadAmounts, min_amount_out : PayloadAmounts,
     is_base_input : BOOLEAN]

\* a payload built by instruction op from the parameters p
Built(op, p, ix_data) == [op |-> op, p |-> p, ix_data |-> ix_data]

PayloadInit ==
    /\ fifo_state = NoAccount
    /\ pool_registry = [p \in Pools |-> NoAccount]
    /\ orders = [a \in OrderAddrs |-> NoAccount]
    /\ events = <<>>
    /\ clock = 0
    /\ last = Built("none", <<>>, <<>>)

BuildExecuteOrderIx ==
    \E user \in Keys, pool_id \in Pools, p \in PayloadParams :
        LET order == OrderState(1, user, pool_id, p, "Pending", 0, None) IN
        /\ last' = Built("execute_order", p, ExecuteOrderIxData(order))
        /\ UNCHANGED <<fifo_state, pool_registry, orders, events, clock>>

BuildSwapImmediateIx ==
    \E p \in PayloadParams :
        /\ last' = Built("swap_immediate", p,
                       SwapImmediateIxData(p.amount_in, p.min_amount_out,
                                           p.is_base_input))
        /\ UNCHANGED <<fifo_state, pool_registry, orders, events, clock>>

BuildExecuteOrderSimpleIx ==
    \E p \in PayloadParams :
        /\ last' = Built("execute_order_simple", p,
                       ExecuteOrderSimpleIxData(p.amount_in, p.min_amount_out,
                                                p.is_base_input))
        /\ UNCHANGED <<fifo_state, pool_registry, orders, events, clock>>

PayloadNext ==
    \/ BuildExecuteOrderIx
    \/ BuildSwapImmediateIx
    \/ BuildExecuteOrderSimpleIx

SpecPayload == PayloadInit /\ [][PayloadNext]_vars
(* --------------------- the forwarded account list ---------------------- *)
\* pass-through accounts a caller appends in the account-list model
MaxPassThrough == 2

\* AccountMeta { pubkey, is_signer, is_writable }
AccountMeta(key, is_signer, is_writable) ==
    [key |-> key, is_signer |-> is_signer, is_writable |-> is_writable]

\* AccountMeta::new(key, is_signer) is writable, new_readonly is not
AccountMetaNew(key, is_signer) == AccountMeta(key, is_signer, TRUE)
AccountMetaNewReadonly(key, is_signer) == AccountMeta(key, is_signer, FALSE)

\* the loop over ctx.remaining_accounts in execute_order,
\* execute_order_simple and swap_immediate
RemainingMetas(remaining_accounts) ==
    [i \in 1..Len(remaining_accounts) |->
        IF remaining_accounts[i].is_writable
        THEN AccountMetaNew(remaining_accounts[i].key, FALSE)
        ELSE AccountMetaNewReadonly(remaining_accounts[i].key, FALSE)]

\* the keys of account infos
InfoKeys(accounts) == [i \in 1..Len(accounts) |-> accounts[i].key]

\* variant: a pass-through account keeps the signer flag it came with
ExecuteOrderAccountMetas_keepSigner(pool_authority, user_source, user_destination, remaining_accounts) ==
    <<AccountMetaNewReadonly(pool_authority, TRUE),
      AccountMetaNew(user_source.key, FALSE),
      AccountMetaNew(user_destination.key, FALSE)>>
        \o [i \in 1..Len(remaining_accounts) |->
               AccountMeta(remaining_accounts[i].key,
                           remaining_accounts[i].is_signer,
                           remaining_accounts[i].is_writable)]

\* account_metas of execute_order
ExecuteOrderAccountMetas(pool_authority, user_source, user_destination, remaining_accounts) ==
    <<AccountMetaNewReadonly(pool_authority, TRUE),
      AccountMetaNew(user_source.key, FALSE),
      AccountMetaNew(user_destination.key, FALSE)>>
        \o RemainingMetas(remaining_accounts)

\* the account infos execute_order hands to invoke_signed
ExecuteOrderAccountInfos(pool_authority, user_source, user_destination, remaining_accounts) ==
    <<pool_authority, user_source.key, user_destination.key>>

\* account_metas of execute_order_simple
ExecuteOrderSimpleAccountMetas(pool_authority, user_source, user_destination, remaining_accounts) ==
    <<AccountMetaNewReadonly(pool_authority, TRUE),
      AccountMetaNew(user_source.key, FALSE),
      AccountMetaNew(user_destination.key, FALSE)>>
        \o RemainingMetas(remaining_accounts)

\* the account infos execute_order_simple hands to invoke_signed
ExecuteOrderSimpleAccountInfos(pool_authority, user_source, user_destination, remaining_accounts) ==
    <<pool_authority, user_source.key, user_destination.key>>
        \o InfoKeys(remaining_accounts)

\* account_metas of swap_immediate
SwapImmediateAccountMetas(pool_authority, remaining_accounts) ==
    <<AccountMetaNewReadonly(pool_authority, TRUE)>>
        \o RemainingMetas(remaining_accounts)

\* all_accounts of swap_immediate
SwapImmediateAccountInfos(pool_authority, remaining_accounts) ==
    <<pool_authority>> \o InfoKeys(remaining_accounts)

\* invoke_signed on the lists: an account the instruction names and the
\* caller did not hand over is a missing account
InvokeSignedAccounts(metas, infos, engine_ok) ==
    IF \E i \in 1..Len(metas) :
           \A j \in 1..Len(infos) : infos[j] # metas[i].key
    THEN "MissingAccount"
    ELSE IF engine_ok THEN "Ok" ELSE "CpiFailed"

\* the accounts a caller passes: token accounts with their owner field,
\* pass-through accounts with the flags the transaction declares
TokenAccounts == [key : {"t1", "t2"}, owner : Keys]

PassThroughAccounts ==
    [key : {"a1", "a2"}, is_signer : BOOLEAN, is_writable : BOOLEAN]

RemainingAccounts ==
    UNION { [1..n -> PassThroughAccounts] : n \in 0..MaxPassThrough }

\* a forwarded instruction: who built it, for which owner and pool, from
\* which accounts, and the lists built; each behaviour builds one
Forwarded(op, user, pool, source, destination, remaining, metas, infos) ==
    [op |-> op, user |-> user, pool |-> pool, source |-> source,
     destination |-> destination, remaining |-> remaining,
     metas |-> metas, infos |-> infos]

ForwardInit ==
    /\ fifo_state = NoAccount
    /\ pool_registry = [p \in Pools |-> NoAccount]
    /\ orders = [a \in OrderAddrs |-> NoAccount]
    /\ events = <<>>
    /\ clock = 0
    /\ last = Forwarded("none", "none", "none", <<>>, <<>>, <<>>, <<>>, <<>>)

\* execute_order past its account constraints, up to invoke_signed
BuildExecuteOrderAccounts ==
    /\ last.op = "none"
    /\ \E user \in Keys, pool_id \in Pools, p \in OrderParams,
       user_source \in TokenAccounts, user_destination \in TokenAccounts,
       remaining_accounts \in RemainingAccounts :
        LET order == OrderState(1, user, pool_id, p, "Pending", 0, None)
            authority == ExecuteOrderAuthority(order)
        IN
        /\ TokenOwnerConstraints(order, user_source.owner,
                                 user_destination.owner) = "Ok"
        /\ last' = Forwarded("execute_order", user, pool_id, user_source,
                       user_destination, remaining_accounts,
                       ExecuteOrderAccountMetas(authority, user_source,
                           user_destination, remaining_accounts),
                       ExecuteOrderAccountInfos(authority, user_source,
                           user_destination, remaining_accounts))
        /\ UNCHANGED <<fifo_state, pool_registry, orders, events, clock>>

\* execute_order_simple past its account constraints, up to invoke_signed
BuildExecuteOrderSimpleAccounts ==
    /\ last.op = "none"
    /\ \E user \in Keys, pool_id \in Pools,
       user_source \in TokenAccounts, user_destination \in TokenAccounts,
       remaining_accounts \in RemainingAccounts :
        LET authority == <<"cp_pool_authority", pool_id>> IN
        /\ user_source.owner = user /\ user_destination.owner = user
        /\ last' = Forwarded("execute_order_simple", user, pool_id,
                       user_source, user_destination, remaining_accounts,
                       ExecuteOrderSimpleAccountMetas(authority, user_source,
                           user_destination, remaining_accounts),
                       ExecuteOrderSimpleAccountInfos(authority, user_source,
                           user_destination, remaining_accounts))
        /\ UNCHANGED <<fifo_state, pool_registry, orders, events, clock>>

\* swap_immediate past its account constraints, up to invoke_signed
BuildSwapImmediateAccounts ==
    /\ last.op = "none"
    /\ \E pool_id \in Pools, remaining_accounts \in RemainingAccounts :
        LET authority == SwapImmediateAuthority(pool_id) IN
        /\ last' = Forwarded("swap_immediate", "none", pool_id, <<>>, <<>>,
                       remaining_accounts,
                       SwapImmediateAccountMetas(authority,
                                                 remaining_accounts),
                       SwapImmediateAccountInfos(authority,
                                                 remaining_accounts))
        /\ UNCHANGED <<fifo_state, pool_registry, orders, events, clock>>

ForwardNext ==
    \/ BuildExecuteOrderAccounts
    \/ BuildExecuteOrderSimpleAccounts
    \/ BuildSwapImmediateAccounts

SpecForward == ForwardInit /\ [][ForwardNext]_vars
(* ====================================================================== *)
(* Properties                                                             *)
(* ====================================================================== *)
Stored(a) == orders[a].exists
Pending(a) == Stored(a) /\ orders[a].status = "Pending"

SubmitOps == {"submit_order", "submit_order_simple", "swap_immediate"}

\* the logged events that advanced the counter, in order
Submissions ==
    SelectSeq(events, LAMBDA e : e.kind \in {"OrderSubmitted", "SwapExecuted"})

\* the logged OrderExecuted events, in order
Executions == SelectSeq(events, LAMBDA e : e.kind = "OrderExecuted")

Increasing(log) ==
    \A i, j \in 1..Len(log) : i < j => log[i].sequence < log[j].sequence

C2_SequenceCountsSubmissions ==
    /\ ~fifo_state.exists => events = <<>>
    /\ fifo_state.exists =>
          /\ Len(Submissions) = fifo_state.current_sequence
          /\ \A i \in 1..Len(Submissions) : Submissions[i].sequence = i
          /\ \A a \in OrderAddrs :
                Stored(a) =>
                    /\ orders[a].sequence \in 1..Len(Submissions)
                    /\ Submissions[orders[a].sequence].kind = "OrderSubmitted"
          /\ last.op = "submit_order" =>
                orders[last.addr].sequence = Len(Submissions)

\* a durable submission made second, after an immediate swap
C2_Witness ==
    /\ fifo_state.exists /\ fifo_state.current_sequence = 2
    /\ Len(events) = 2 /\ events[1].kind = "SwapExecuted"
    /\ last.op = "submit_order" /\ last.seq = 2

\* C3: every stored order lies at the address derived from its owner and
\* its own sequence, the address execute_order and cancel_order derive.
C3_StoredUnderOwnerAndSequence ==
    \A a \in OrderAddrs :
        Stored(a) => a = OrderPda(orders[a].user, orders[a].sequence)

\* the execution of the order at a that C4 describes: the order's own
\* sequence asserted, the owner's token accounts, a forwarded call that
\* succeeds
C4_Execution(a) ==
    \E executor \in Keys, remaining \in 0..MaxRemaining,
       start_balance \in 0..1, end_balance \in 0..1 :
        /\ ExecuteOrderCall(a, orders[a].sequence, executor, orders[a].user,
                            orders[a].user, remaining, TRUE,
                            start_balance, end_balance)
        /\ orders'[a].status = "Executed"
        /\ orders'[a].executed_at = Some(clock)
        /\ last'.emitted = <<OrderExecutedEvent(orders[a].sequence,
                                orders[a].user,
                                end_balance - start_balance, executor)>>

\* C4: every Pending order can be executed: execute_order with
\* expected_sequence = order.sequence and a forwarded call that succeeds
\* sets the status to Executed and the finalized time to the current time
\* and emits OrderExecuted.
C4_PendingIsExecutable ==
    \A a \in OrderAddrs : Pending(a) => ENABLED C4_Execution(a)

\* the cancellation of the order at a by its owner
C5_Cancellation(a) ==
    /\ CancelOrderCall(a, orders[a].user)
    /\ orders'[a].status = "Cancelled"
    /\ orders'[a].executed_at = Some(clock)
    /\ last'.emitted = <<OrderCancelledEvent(orders[a].sequence,
                                             orders[a].user)>>

\* C5: the owner of a Pending order can cancel it: cancel_order by
\* order.owner sets the status to Cancelled and the finalized time to the
\* current time and emits OrderCancelled{sequence, owner}.
C5_OwnerCanCancel ==
    \A a \in OrderAddrs : Pending(a) => ENABLED C5_Cancellation(a)

\* C7: current_sequence never decreases; a step raises it exactly when it
\* is a successful submit_order, submit_order_simple or swap_immediate, and
\* then by exactly 1.
C7_SequenceFrame ==
    [][ fifo_state.exists =>
          /\ fifo_state'.exists
          /\ fifo_state'.current_sequence \in
                {fifo_state.current_sequence, fifo_state.current_sequence + 1}
          /\ (fifo_state'.current_sequence = fifo_state.current_sequence + 1)
                <=> (last' # last /\ last'.op \in SubmitOps) ]_vars

\* a pool registered after two submissions, the counter still 2
C7_Witness ==
    /\ fifo_state.exists /\ fifo_state.current_sequence = 2
    /\ Len(events) = 2
    /\ last.op = "initialize_cp_swap_pool"

\* C8: no two stored orders have the same (owner, sequence) pair.
C8_OwnerSequenceUnique ==
    \A a, b \in OrderAddrs :
        (Stored(a) /\ Stored(b) /\ a # b) =>
            <<orders[a].user, orders[a].sequence>>
                # <<orders[b].user, orders[b].sequence>>

\* two stored orders of one owner
C8_Witness ==
    \E a, b \in OrderAddrs :
        a # b /\ Stored(a) /\ Stored(b) /\ orders[a].user = orders[b].user

\* a change made by execute_order called on the order at a with sequence e,
\* the token accounts being the owner's and the balance rising (the inputs
\* with which a call that passes the order account's constraints commits)
C9_Changes(a, e) ==
    \E executor \in Keys, remaining \in 0..MaxRemaining, engine_ok \in BOOLEAN :
        /\ ExecuteOrderCall(a, e, executor, orders[a].user, orders[a].user,
                            remaining, engine_ok, 0, 1)
        /\ vars' # vars

C11_NonOwnerCancelIsUnauthorized ==
    \A a \in OrderAddrs, user \in Keys :
        (Pending(a) /\ user # orders[a].user) =>
            CancelOrderConstraints(a, orders[a], user) = "Unauthorized"

\* the allow-list as a set
AuthorizedRelayers ==
    IF fifo_state.exists
    THEN { fifo_state.authorized_relayers[i] :
              i \in 1..Len(fifo_state.authorized_relayers) }
    ELSE {}

\* C13: an execute_order attempted on a Pending order by an identity that
\* is not in the allow-list fails with Unauthorized.
C13_UnlistedExecutorIsUnauthorized ==
    \A a \in OrderAddrs, e \in 0..MaxSeq, executor \in Keys,
       remaining \in 0..MaxRemaining, engine_ok \in BOOLEAN :
        (Pending(a) /\ executor \notin AuthorizedRelayers) =>
            ExecuteOrderResult(a, e, executor, orders[a].user, orders[a].user,
                               remaining, engine_ok) = "Unauthorized"

\* C14: swap_immediate is relayer-gated: a swap_immediate that commits (it
\* advances current_sequence and issues the forwarded call) was called by a
\* member of the allow-list.
C14_SwapImmediateIsRelayerGated ==
    [][ (last' # last /\ last'.op = "swap_immediate") =>
            last'.caller \in AuthorizedRelayers ]_vars

\* the owner's cancel_order on the order at a, committing
C17_Cancellation(a) ==
    /\ CancelOrderCall(a, orders[a].user)
    /\ orders'[a].status = "Cancelled"

\* C17: a submission for a pool that is unregistered or whose registration
\* is inactive fails with PoolNotRegistered, and the owner of a Pending
\* order can cancel it whatever the pool's active flag and the pause flag
\* are.
C17_PoolGateSparesCancellation ==
    /\ \A pool_id \in Pools, user \in Keys :
          (/\ fifo_state.exists
           /\ ~fifo_state.emergency_pause
           /\ \/ ~pool_registry[pool_id].exists
              \/ ~pool_registry[pool_id].is_active) =>
              /\ SubmissionConstraints(fifo_state, pool_registry[pool_id])
                    = "PoolNotRegistered"
              /\ SubmitOrderConstraints(fifo_state, pool_registry[pool_id],
                    orders[OrderPda(user, SubmitOrderPdaSequence(fifo_state))])
                    = "PoolNotRegistered"
    /\ \A a \in OrderAddrs :
          Pending(a) => ENABLED C17_Cancellation(a)

\* the number a sequence of bytes encodes, least significant byte first
RECURSIVE FromLeBytes(_)
FromLeBytes(bytes) ==
    IF bytes = <<>> THEN 0 ELSE Head(bytes) + 256 * FromLeBytes(Tail(bytes))

\* C19: the forwarded payload is exactly 24 bytes: an 8-byte opcode chosen
\* by is_base_input (two different opcodes), then as 64-bit little-endian
\* numbers amount_in, min_amount_out for base-input and min_amount_out,
\* amount_in otherwise; execute_order, execute_order_simple and
\* swap_immediate build the same payload from the same parameters.
C19_PayloadLayout ==
    last.op # "none" =>
        LET p == last.p
            d == last.ix_data
            first == IF p.is_base_input THEN p.amount_in
                     ELSE p.min_amount_out
            second == IF p.is_base_input THEN p.min_amount_out
                      ELSE p.amount_in
        IN
        /\ Len(d) = 24
        /\ \A i \in 1..24 : d[i] \in 0..255
        /\ SubSeq(d, 1, 8) = IF p.is_base_input
                             THEN SwapBaseInputDiscriminator
                             ELSE SwapBaseOutputDiscriminator
        /\ SwapBaseInputDiscriminator # SwapBaseOutputDiscriminator
        /\ FromLeBytes(SubSeq(d, 9, 16)) = first
        /\ FromLeBytes(SubSeq(d, 17, 24)) = second
        /\ d = SwapImmediateIxData(p.amount_in, p.min_amount_out,
                                   p.is_base_input)
        /\ d = ExecuteOrderSimpleIxData(p.amount_in, p.min_amount_out,
                                        p.is_base_input)
        /\ d = ExecuteOrderIxData(
                   OrderState(1, "k1", "p1", p, "Pending", 0, None))

\* a base-output payload built by execute_order from two amounts that
\* differ and span several bytes
C19_Witness ==
    /\ last.op = "execute_order"
    /\ ~last.p.is_base_input
    /\ last.p.amount_in = 65536 /\ last.p.min_amount_out = 900
    /\ SubSeq(last.ix_data, 9, 11) = <<132, 3, 0>>
    /\ SubSeq(last.ix_data, 17, 19) = <<0, 0, 1>>

AdminOps == {"initialize_cp_swap_pool", "add_relayer", "remove_relayer"}

\* C20: only the administrator recorded at initialize registers a pool,
\* adds or removes a relayer or changes the pause flag: a step that changes
\* the pool registry, the allow-list, the pause flag or the recorded
\* administrator is one of these calls signed by the administrator, and
\* each of them signed by any other key is rejected.
C20_AdminOnly ==
    [][ /\ ~fifo_state.exists => pool_registry' = pool_registry
        /\ fifo_state.exists =>
              /\ (\/ pool_registry' # pool_registry
                  \/ fifo_state'.authorized_relayers
                        # fifo_state.authorized_relayers
                  \/ fifo_state'.emergency_pause # fifo_state.emergency_pause
                  \/ fifo_state'.admin # fifo_state.admin) =>
                      /\ last'.op \in AdminOps
                      /\ last'.caller = fifo_state.admin
              /\ \A k \in Keys \ {fifo_state.admin} :
                    /\ \A pool \in Pools :
                          InitializeCpSwapPoolConstraints(
                              fifo_state, pool_registry[pool], k) # "Ok"
                    /\ \A r \in Relayers :
                          /\ AddRelayerResult(fifo_state, k, r) # "Ok"
                          /\ RemoveRelayerResult(fifo_state, k) # "Ok" ]_vars

\* the administrator has registered a pool and added a relayer, and the
\* other key is refused the registration of the remaining pool and the
\* removal of that relayer
C20_Witness ==
    /\ fifo_state.exists
    /\ last.op = "add_relayer" /\ last.caller = fifo_state.admin
    /\ Len(fifo_state.authorized_relayers) = 1
    /\ pool_registry["p1"].exists /\ ~pool_registry["p2"].exists
    /\ \E k \in Keys :
          /\ k # fifo_state.admin
          /\ InitializeCpSwapPoolConstraints(
                 fifo_state, pool_registry["p2"], k) = "ConstraintHasOne"
          /\ RemoveRelayerResult(fifo_state, k) = "Unauthorized"

\* the allow-list, before and after a step
RelayerList == fifo_state.authorized_relayers

NoDuplicates(list) ==
    \A i, j \in 1..Len(list) : i # j => list[i] # list[j]

\* C21: the allow-list behaves as a set: add_relayer of a listed id fails
\* (no call changes anything), so the list never holds duplicates;
\* remove_relayer of an absent id succeeds and changes nothing in the list;
\* after remove_relayer(id) the id is not listed; and the removal of an id
\* just added gives back the list as it was before the addition.
C21_AllowListIsASet ==
    [][ fifo_state.exists =>
          /\ NoDuplicates(RelayerList')
          /\ \A r \in RelayerKeys :
                Contains(RelayerList, r) =>
                    AddRelayerResult(fifo_state, fifo_state.admin, r) # "Ok"
          /\ (last' # last /\ last'.op = "add_relayer") =>
                /\ ~Contains(RelayerList, last'.pool)
                /\ RelayerList' = Append(RelayerList, last'.pool)
                /\ Retain(RelayerList', last'.pool) = RelayerList
          /\ (last' # last /\ last'.op = "remove_relayer") =>
                /\ ~Contains(RelayerList', last'.pool)
                /\ ~Contains(RelayerList, last'.pool) =>
                      RelayerList' = RelayerList
                /\ \A r \in RelayerKeys \ {last'.pool} :
                      Contains(RelayerList', r) <=> Contains(RelayerList, r)
          /\ \A r \in RelayerKeys :
                ~Contains(RelayerList, r) =>
                    RemoveRelayerResult(fifo_state, fifo_state.admin) = "Ok" ]_vars

\* two relayers listed, and the removal of a relayer that is not listed
\* has just committed
C21_Witness ==
    /\ fifo_state.exists
    /\ Len(fifo_state.authorized_relayers) = 2
    /\ last.op = "remove_relayer"
    /\ ~Contains(fifo_state.authorized_relayers, last.pool)

\* a change made by initialize_cp_swap_pool for pool p whose forwarded
\* pool-creation call fails
C22_ChangesOnFailure(p) ==
    \E admin \in Keys :
        InitializeCpSwapPoolCall(admin, p, FALSE) /\ vars' # vars

\* C22: a pool is registered at most once: initialize_cp_swap_pool for a
\* registered pool is rejected and no step changes an existing
\* registration; a registration appears exactly in a committed
\* initialize_cp_swap_pool for that pool, which emits PoolRegistered; and a
\* call whose forwarded pool-creation call fails changes nothing.
C22_RegisteredAtMostOnce ==
    [][ \A p \in Pools :
          /\ pool_registry[p].exists =>
                /\ pool_registry'[p] = pool_registry[p]
                /\ \A k \in Keys :
                      InitializeCpSwapPoolConstraints(
                          fifo_state, pool_registry[p], k) # "Ok"
          /\ (~pool_registry[p].exists /\ pool_registry'[p].exists)
                <=> (/\ last' # last
                     /\ last'.op = "initialize_cp_swap_pool"
                     /\ last'.pool = p)
          /\ (last' # last /\ last'.op = "initialize_cp_swap_pool"
                /\ last'.pool = p) =>
                /\ Len(last'.emitted) = 1
                /\ last'.emitted[1].kind = "PoolRegistered"
                /\ last'.emitted[1].pool_id = p
          /\ ~ENABLED C22_ChangesOnFailure(p) ]_vars

\* a pool registered at an earlier time, for which every further
\* registration is refused as already in use, beside a pool not registered
C22_Witness ==
    /\ pool_registry["p1"].exists /\ pool_registry["p1"].created_at < clock
    /\ ~pool_registry["p2"].exists
    /\ InitializeCpSwapPoolConstraints(
           fifo_state, pool_registry["p1"], fifo_state.admin) = "AlreadyInUse"

\* C23: the authority stored in every registration is the one derived from
\* the salt and the pool id, no step changes it once stored, and a
\* forwarded swap of execute_order or swap_immediate is signed under that
\* same authority.
C23_AuthorityIsDerived ==
    [][ /\ \A p \in Pools :
              /\ pool_registry'[p].exists =>
                    /\ pool_registry'[p].pool_id = p
                    /\ pool_registry'[p].continuum_authority
                          = PoolAuthorityPda(p)
              /\ pool_registry[p].exists =>
                    /\ pool_registry'[p].exists
                    /\ pool_registry'[p].continuum_authority
                          = pool_registry[p].continuum_authority
        /\ (last' # last /\ last'.op \in {"execute_order", "swap_immediate"})
              => last'.authority
                    = Some(pool_registry[last'.pool].continuum_authority) ]_vars

\* an immediate swap on the second pool, both pools registered
C23_Witness ==
    /\ pool_registry["p1"].exists /\ pool_registry["p2"].exists
    /\ last.op = "swap_immediate" /\ last.pool = "p2"
    /\ last.authority = Some(pool_registry["p2"].continuum_authority)
    /\ pool_registry["p1"].continuum_authority
          # pool_registry["p2"].continuum_authority

\* C24: initialize succeeds exactly once: the step that creates the
\* sequencer state is a committed initialize and sets current_sequence = 0,
\* the pause flag false and admin = the caller; once the state exists every
\* initialize is rejected, the state stays, and no step changes admin.
C24_InitializeOnce ==
    [][ /\ ~fifo_state.exists =>
              /\ InitializeResult(fifo_state) = "Ok"
              /\ fifo_state'.exists <=>
                    (last' # last /\ last'.op = "initialize")
              /\ fifo_state'.exists =>
                    /\ fifo_state'.current_sequence = 0
                    /\ fifo_state'.emergency_pause = FALSE
                    /\ fifo_state'.admin = last'.caller
        /\ fifo_state.exists =>
              /\ InitializeResult(fifo_state) # "Ok"
              /\ last'.op = "initialize" => last' = last
              /\ fifo_state'.exists
              /\ fifo_state'.admin = fifo_state.admin ]_vars

\* the sequencer state after submissions and a change of the allow-list,
\* its admin still the caller of initialize
C24_Witness ==
    /\ fifo_state.exists /\ fifo_state.current_sequence = 2
    /\ fifo_state.authorized_relayers # <<>>
    /\ fifo_state.admin \in Admins
    /\ InitializeResult(fifo_state) = "AlreadyInUse"

\* C25: the account list execute_order builds is: the pool's delegated
\* authority, read-only and the only signer; the owner's source and
\* destination accounts, writable and owned by the order's owner; then the
\* pass-through accounts in the caller's order, each with the writable flag
\* the caller declared and none a signer.
C25_ExecuteOrderAccountList ==
    last.op = "execute_order" =>
        LET m == last.metas
            r == last.remaining
        IN
        /\ Len(m) = 3 + Len(r)
        /\ Len(m) = ExecuteOrderMetas(Len(r))
        /\ m[1] = [key |-> PoolAuthorityPda(last.pool),
                   is_signer |-> TRUE, is_writable |-> FALSE]
        /\ m[2] = [key |-> last.source.key,
                   is_signer |-> FALSE, is_writable |-> TRUE]
        /\ m[3] = [key |-> last.destination.key,
                   is_signer |-> FALSE, is_writable |-> TRUE]
        /\ last.source.owner = last.user
        /\ last.destination.owner = last.user
        /\ \A i \in 1..Len(r) :
              m[3 + i] = [key |-> r[i].key, is_signer |-> FALSE,
                          is_writable |-> r[i].is_writable]
        /\ \A i \in 1..Len(m) : m[i].is_signer <=> i = 1

\* two pass-through accounts: first a read-only one that signed the
\* transaction, then a writable one
C25_Witness ==
    /\ last.op = "execute_order"
    /\ Len(last.remaining) = 2
    /\ last.remaining[1] =
          [key |-> "a2", is_signer |-> TRUE, is_writable |-> FALSE]
    /\ last.remaining[2] =
          [key |-> "a1", is_signer |-> FALSE, is_writable |-> TRUE]
    /\ last.metas[4].key = "a2" /\ last.metas[5].key = "a1"

\* C26: every account the forwarded instruction names is among the
\* accounts handed to invoke_signed, in execute_order as in
\* execute_order_simple and swap_immediate, so a call with pass-through
\* accounts is not rejected for a missing account.
C26_ForwardedAccountsSupplied ==
    last.op # "none" =>
        /\ \A i \in 1..Len(last.metas) :
              \E j \in 1..Len(last.infos) : last.infos[j] = last.metas[i].key
        /\ InvokeSignedAccounts(last.metas, last.infos, TRUE) = "Ok"

\* a committed call of one of the two instructions that keep no order
C27_Committed(op) == last' # last /\ last'.op = op

\* a swap_immediate whose forwarded call fails and that moves the counter
C27_FailedSwapAdvances ==
    \E pool_id \in Pools, p \in OrderParams, remaining \in 0..MaxRemaining :
        SwapImmediateCall(pool_id, p, remaining, FALSE)
            /\ fifo_state' # fifo_state

\* C27: submit_order_simple and swap_immediate create, change and finalize
\* no order: a committed call changes nothing but current_sequence, which
\* grows by one, and emits one event (OrderSubmitted or SwapExecuted) with
\* the new sequence; a swap_immediate whose forwarded call fails does not
\* advance current_sequence.
C27_NoOrderKept ==
    [][ /\ \A op \in {"submit_order_simple", "swap_immediate"} :
              C27_Committed(op) =>
                /\ orders' = orders
                /\ pool_registry' = pool_registry
                /\ fifo_state' = [fifo_state EXCEPT
                                     !.current_sequence = @ + 1]
                /\ Len(last'.emitted) = 1
                /\ last'.emitted[1].kind =
                      (IF op = "swap_immediate" THEN "SwapExecuted"
                       ELSE "OrderSubmitted")
                /\ last'.emitted[1].sequence = fifo_state'.current_sequence
                /\ events' = Append(events, Logged(last'.emitted[1]))
        /\ ~ENABLED C27_FailedSwapAdvances ]_vars

\* a swap_immediate committed as the second submission, beside a stored
\* order it left alone
C27_Witness ==
    /\ last.op = "swap_immediate"
    /\ last.seq = 2
    /\ fifo_state.current_sequence = 2
    /\ \E a \in OrderAddrs : orders[a].exists

====
